---- MODULE Spec2Model ----
(***************************************************************************)
(* Model of the User REST API: the User schema (models/User.js), the       *)
(* UserController write and read handlers (controllers/userController.js)  *)
(* and the MongoDB collection they share; the process around them: the     *)
(* DatabaseConnection of config/database.js and the start and shutdown of  *)
(* server.js.                                                              *)
(*                                                                         *)
(* Strings are sequences of one-character strings, so that trim,           *)
(* toLowerCase and the schema's regular expressions are computed and not   *)
(* assumed.  JavaScript values are tagged records with the fields          *)
(*   t (typeof-like tag), n (integer part), f (tenths), s (characters),    *)
(*   a (array of strings)                                                  *)
(* so that truthiness tests such as `age ? parseInt(age) : null` keep      *)
(* their JavaScript meaning.                                               *)
(*                                                                         *)
(* Library behaviour is that of Mongoose 5.x/6.x, the versions the         *)
(* connection options of config/database.js (useNewUrlParser,              *)
(* useUnifiedTopology, maxPoolSize) belong to.                             *)
(***************************************************************************)
EXTENDS Integers, Sequences, FiniteSets, TLC

VARIABLES db, req, docs, started,
          database, mongoose, listeners, server, exitCode, pending

\* the collection and the requests on it
api == <<db, req, docs, started>>

\* the process: the DatabaseConnection singleton (database), the readyState of
\* mongoose.connection (mongoose), the number of times setupEventListeners has
\* registered its listeners (listeners), the HTTP server of startServer
\* (server), the code the process has exited with (exitCode: none while it
\* runs) and what the event loop still has to run (pending)
node == <<database, mongoose, listeners, server, exitCode, pending>>

vars == <<db, req, docs, started, database, mongoose, listeners, server, exitCode, pending>>

-----------------------------------------------------------------------------
(* Characters and strings *)

UpperChars == <<"A","B","C","D","E","F","G","H","I","J","K","L","M",
                "N","O","P","Q","R","S","T","U","V","W","X","Y","Z">>

LowerChars == <<"a","b","c","d","e","f","g","h","i","j","k","l","m",
                "n","o","p","q","r","s","t","u","v","w","x","y","z">>

DigitChars == <<"0","1","2","3","4","5","6","7","8","9">>

Range(q) == { q[i] : i \in DOMAIN q }

IsUpper(c) == c \in Range(UpperChars)

IsLetter(c) == c \in Range(UpperChars) \cup Range(LowerChars)

IsDigit(c) == c \in Range(DigitChars)

\* \s of a JavaScript regular expression, and the characters trim() strips
IsSpace(c) == c \in {" ", "\t", "\n"}

\* String.prototype.toLowerCase on one character
LowerOf(c) ==
  IF IsUpper(c)
    THEN LowerChars[CHOOSE i \in DOMAIN UpperChars : UpperChars[i] = c]
    ELSE c

\* String.prototype.toLowerCase
ToLowerCase(s) == [i \in DOMAIN s |-> LowerOf(s[i])]

\* String.prototype.trim: the characters between the first and the last
\* non-space character
Trim(s) ==
  LET keep == { i \in DOMAIN s : ~IsSpace(s[i]) }
  IN IF keep = {} THEN <<>>
     ELSE LET lo == CHOOSE i \in keep : \A j \in keep : i <= j
              hi == CHOOSE i \in keep : \A j \in keep : j <= i
          IN SubSeq(s, lo, hi)

\* n copies of the character c
Rep(c, n) == [i \in 1..n |-> c]

\* the sequence q without its element at position i (Array.prototype.splice(i, 1))
Splice(q, i) == [j \in 1..(Len(q) - 1) |-> IF j < i THEN q[j] ELSE q[j + 1]]

-----------------------------------------------------------------------------
(* JavaScript values *)

Undefined == [t |-> "undefined", n |-> 0, f |-> 0, s |-> <<>>, a |-> <<>>]

Null == [t |-> "null", n |-> 0, f |-> 0, s |-> <<>>, a |-> <<>>]

NaN == [t |-> "NaN", n |-> 0, f |-> 0, s |-> <<>>, a |-> <<>>]

\* the number n + f/10 (f = 0 for an integer)
Num(n, f) == [t |-> "number", n |-> n, f |-> f, s |-> <<>>, a |-> <<>>]

Int0(n) == Num(n, 0)

Str(s) == [t |-> "string", n |-> 0, f |-> 0, s |-> s, a |-> <<>>]

\* an array of strings
Arr(a) == [t |-> "array", n |-> 0, f |-> 0, s |-> <<>>, a |-> a]

Bool(b) == [t |-> "boolean", n |-> IF b THEN 1 ELSE 0, f |-> 0, s |-> <<>>, a |-> <<>>]

\* ToBoolean: what `if (v)`, `!v` and `v ? x : y` test
Truthy(v) ==
  CASE v.t = "undefined" -> FALSE
    [] v.t = "null" -> FALSE
    [] v.t = "NaN" -> FALSE
    [] v.t = "number" -> v.n # 0 \/ v.f # 0
    [] v.t = "string" -> v.s # <<>>
    [] v.t = "boolean" -> v.n = 1
    [] OTHER -> TRUE

\* value of a sequence of decimal digits
RECURSIVE DigitsValue(_)
DigitsValue(s) ==
  IF s = <<>> THEN 0
  ELSE DigitsValue(SubSeq(s, 1, Len(s) - 1)) * 10
       + ((CHOOSE i \in DOMAIN DigitChars : DigitChars[i] = s[Len(s)]) - 1)

\* parseInt(v): a number loses its fraction; a string is read, after leading
\* white space and an optional sign, up to its first non-digit; anything else
\* is NaN
parseInt(v) ==
  CASE v.t = "number" -> Num(v.n, 0)
    [] v.t = "string" ->
         LET trimmed == Trim(v.s)
             signed == trimmed # <<>> /\ trimmed[1] \in {"-", "+"}
             str == IF signed THEN Tail(trimmed) ELSE trimmed
             k == CHOOSE i \in 0..Len(str) :
                    /\ \A j \in 1..i : IsDigit(str[j])
                    /\ (i < Len(str) => ~IsDigit(str[i + 1]))
             value == DigitsValue(SubSeq(str, 1, k))
         IN IF k = 0 THEN NaN
            ELSE Num(IF signed /\ trimmed[1] = "-" THEN 0 - value ELSE value, 0)
    [] OTHER -> NaN

\* the result of a division by zero of a positive number
Infinity == [t |-> "Infinity", n |-> 0, f |-> 0, s |-> <<>>, a |-> <<>>]

IsNumber(v) == v.t = "number"

\* a * b on integers and NaN
Times(a, b) == IF IsNumber(a) /\ IsNumber(b) THEN Num(a.n * b.n, 0) ELSE NaN

\* a - b on integers and NaN
Minus(a, b) == IF IsNumber(a) /\ IsNumber(b) THEN Num(a.n - b.n, 0) ELSE NaN

\* a < b: false when either side is NaN
Less(a, b) ==
  CASE IsNumber(a) /\ IsNumber(b) -> a.n < b.n
    [] IsNumber(a) /\ b.t = "Infinity" -> TRUE
    [] OTHER -> FALSE

\* CeilDiv as it would be with Math.floor
CeilDivFloor(n, d) ==
  CASE ~IsNumber(d) -> NaN
    [] d.n = 0 -> IF n = 0 THEN NaN ELSE Infinity
    [] d.n > 0 -> Num(n \div d.n, 0)
    [] OTHER -> Num(0 - ((n + (0 - d.n) - 1) \div (0 - d.n)), 0)

\* Math.ceil(n / d) for an integer n >= 0
CeilDiv(n, d) ==
  CASE ~IsNumber(d) -> NaN
    [] d.n = 0 -> IF n = 0 THEN NaN ELSE Infinity
    [] d.n > 0 -> Num((n + d.n - 1) \div d.n, 0)
    [] OTHER -> Num(0 - (n \div (0 - d.n)), 0)

-----------------------------------------------------------------------------
(* The User schema: models/User.js *)

MinNameLength == 2
MaxNameLength == 100
MinAge == 13
MaxAge == 120
MinHobbyLength == 2
MaxHobbyLength == 50
MaxHobbies == 10
MinScore == 0
MaxScore == 100

\* /^[a-zA-Z\s\-']{2,100}$/.test(v)
NameRegex(s) ==
  /\ Len(s) >= 2
  /\ Len(s) <= 100
  /\ \A i \in DOMAIN s : IsLetter(s[i]) \/ IsSpace(s[i]) \/ s[i] \in {"-", "'"}

\* name: required, minlength, maxlength, validate
NameOk(v) ==
  /\ v.t = "string"
  /\ v.s # <<>>
  /\ Len(v.s) >= MinNameLength
  /\ Len(v.s) <= MaxNameLength
  /\ NameRegex(v.s)

IsLocalChar(c) == IsLetter(c) \/ IsDigit(c) \/ c \in {".", "_", "%", "+", "-"}

IsDomainChar(c) == IsLetter(c) \/ IsDigit(c) \/ c \in {".", "-"}

\* /^[a-zA-Z0-9._%+-]+@[a-zA-Z0-9.-]+\.[a-zA-Z]{2,}$/
EmailRegex(s) ==
  \E at \in DOMAIN s : \E dot \in DOMAIN s :
    /\ s[at] = "@"
    /\ s[dot] = "."
    /\ at > 1
    /\ dot > at + 1
    /\ Len(s) >= dot + 2
    /\ \A i \in 1..(at - 1) : IsLocalChar(s[i])
    /\ \A i \in (at + 1)..(dot - 1) : IsDomainChar(s[i])
    /\ \A i \in (dot + 1)..Len(s) : IsLetter(s[i])

\* v.split('@')[1]: the text between the first and the second '@'
\* (to the end when there is one '@'); <<>> stands for no such part
DomainOf(s) ==
  LET ats == { i \in DOMAIN s : s[i] = "@" }
  IN IF ats = {} THEN <<>>
     ELSE LET first == CHOOSE i \in ats : \A j \in ats : i <= j
              rest == { i \in ats : i > first }
              stop == IF rest = {} THEN Len(s) + 1
                      ELSE CHOOSE i \in rest : \A j \in rest : i <= j
          IN SubSeq(s, first + 1, stop - 1)

TempmailCom == <<"t","e","m","p","m","a","i","l",".","c","o","m">>

ThrowawayCom == <<"t","h","r","o","w","a","w","a","y",".","c","o","m">>

disposableDomains == {TempmailCom, ThrowawayCom}

\* NotDisposable looking the whole address up instead of its domain
NotDisposableWholeAddress(s) ==
  /\ \E i \in DOMAIN s : s[i] = "@"
  /\ ToLowerCase(s) \notin disposableDomains

\* the email validator: the domain is none of the disposable ones
\* (an address without '@' makes the validator throw, which fails it)
NotDisposable(s) ==
  /\ \E i \in DOMAIN s : s[i] = "@"
  /\ ToLowerCase(DomainOf(s)) \notin disposableDomains

\* email: required, match, validate
EmailOk(v) ==
  /\ v.t = "string"
  /\ v.s # <<>>
  /\ EmailRegex(v.s)
  /\ NotDisposable(v.s)

\* age: min, max; both pass null; a value that is no number fails the cast
AgeOk(v) ==
  \/ v.t = "null"
  \/ /\ v.t = "number"
     /\ v.n >= MinAge
     /\ v.n < MaxAge \/ (v.n = MaxAge /\ v.f = 0)

\* one hobby: minlength, maxlength
HobbyOk(h) == Len(h) >= MinHobbyLength /\ Len(h) <= MaxHobbyLength

\* HobbiesLengthOk with the limit off by one
HobbiesLengthOffByOne(hs) == Len(hs) <= MaxHobbies + 1

\* hobbies: the array validator
HobbiesLengthOk(hs) == Len(hs) <= MaxHobbies

\* profileScore: min, max
ScoreOk(v) ==
  /\ v.t = "number"
  /\ v.n >= MinScore
  /\ v.n < MaxScore \/ (v.n = MaxScore /\ v.f = 0)

\* the error paths of hobbies
HobbiesErrors(hs) ==
  (IF HobbiesLengthOk(hs) THEN {} ELSE {"hobbies"})
  \cup { "hobbies." \o ToString(i - 1) : i \in { j \in DOMAIN hs : ~HobbyOk(hs[j]) } }

\* the setters of name (trim) and of email (lowercase, trim)
CastName(v) == IF v.t = "string" THEN Str(Trim(v.s)) ELSE v

CastEmail(v) == IF v.t = "string" THEN Str(Trim(ToLowerCase(v.s))) ELSE v

CastHobbies(hs) == [i \in DOMAIN hs |-> Trim(hs[i])]

\* new User(userData): setters and defaults applied
NewUser(userData) ==
  [ name |-> CastName(userData.name),
    email |-> CastEmail(userData.email),
    age |-> userData.age,
    hobbies |-> CastHobbies(userData.hobbies),
    isActive |-> TRUE,
    profileScore |-> Int0(0) ]

\* document validation, the first pre('save') hook: the paths in error
ValidateDoc(d) ==
  (IF NameOk(d.name) THEN {} ELSE {"name"})
  \cup (IF EmailOk(d.email) THEN {} ELSE {"email"})
  \cup (IF AgeOk(d.age) THEN {} ELSE {"age"})
  \cup HobbiesErrors(d.hobbies)
  \cup (IF ScoreOk(d.profileScore) THEN {} ELSE {"profileScore"})

\* ComputeScore giving the age the points of the name-less half: 10, not 20
ComputeScoreAgeTen(d) ==
  (IF Truthy(d.name) /\ Len(d.name.s) >= 2 THEN 20 ELSE 0)
  + (IF Truthy(d.email) THEN 30 ELSE 0)
  + (IF Truthy(d.age) THEN 10 ELSE 0)
  + (IF Len(d.hobbies) * 3 < 30 THEN Len(d.hobbies) * 3 ELSE 30)

\* ComputeScore without the cap of 30 on the hobby points
ComputeScoreUncapped(d) ==
  (IF Truthy(d.name) /\ Len(d.name.s) >= 2 THEN 20 ELSE 0)
  + (IF Truthy(d.email) THEN 30 ELSE 0)
  + (IF Truthy(d.age) THEN 20 ELSE 0)
  + Len(d.hobbies) * 3

\* updateProfileScore: the score it assigns to this.profileScore
ComputeScore(d) ==
  (IF Truthy(d.name) /\ Len(d.name.s) >= 2 THEN 20 ELSE 0)
  + (IF Truthy(d.email) THEN 30 ELSE 0)
  + (IF Truthy(d.age) THEN 20 ELSE 0)
  + (IF Len(d.hobbies) * 3 < 30 THEN Len(d.hobbies) * 3 ELSE 30)

-----------------------------------------------------------------------------
(* Request inputs: the strings, numbers and bodies the handlers are run on *)

AnnLee == <<"A","n","n"," ","L","e","e">>
BobRay == <<"B","o","b"," ","R","a","y">>
PaddedBobRay == <<" ","B","o","b"," ","R","a","y"," ">>
DigitName == <<"R","2","D","2">>
LongName == Rep("a", MaxNameLength + 1)

AnnEmail == <<"a","n","n","@","e","x","a","m","p","l","e",".","c","o","m">>
AnnEmailUpper == <<"A","N","N","@","E","X","A","M","P","L","E",".","C","O","M">>
BobEmail == <<"b","o","b","@","e","x",".","c","o">>
BobEmailPadded == <<" ","B","o","b","@","E","x",".","c","o"," ">>
CyEmail == <<"c","y","@","e","x",".","c","o">>
DisposableEmail == <<"c","y","@","T","e","m","p","M","a","i","l",".","c","o","m">>
NoAtEmail == <<"c","y",".","e","x",".","c","o">>

Chess == <<"c","h","e","s","s">>
PaddedChess == <<" ","c","h","e","s","s">>
Reading == <<"r","e","a","d","i","n","g">>
Go == <<"g","o">>
OneLetterHobby == <<"x">>
LongHobby == Rep("h", MaxHobbyLength + 1)

\* a request body: a field the body does not carry is Undefined
Body(name, email, age, hobbies, profileScore, isActive) ==
  [ name |-> name, email |-> email, age |-> age, hobbies |-> hobbies,
    profileScore |-> profileScore, isActive |-> isActive ]

EmptyBody == Body(Undefined, Undefined, Undefined, Undefined, Undefined, Undefined)

\* bodies of POST /api/users
CreateBodies ==
  { Body(Str(AnnLee), Str(AnnEmailUpper), Int0(25), Arr(<<Chess, Reading>>), Undefined, Undefined),
    Body(Str(BobRay), Str(CyEmail), Int0(0), Undefined, Int0(99), Undefined),
    Body(Str(BobRay), Str(CyEmail), Int0(5), Arr(<<PaddedChess>>), Undefined, Undefined),
    Body(Str(BobRay), Str(CyEmail), Str(<<"0">>), Undefined, Undefined, Undefined),
    Body(Str(BobRay), Str(DisposableEmail), Int0(MaxAge), Arr(<<OneLetterHobby, LongHobby>>), Undefined, Undefined),
    Body(Str(DigitName), Str(NoAtEmail), Int0(MaxAge + 1), Arr(Rep(Chess, MaxHobbies + 1)), Undefined, Undefined),
    Body(Undefined, Str(CyEmail), Undefined, Undefined, Undefined, Undefined) }

\* bodies of PUT /api/users/:id
UpdateBodies ==
  { [EmptyBody EXCEPT !.email = Str(BobEmailPadded)],
    [EmptyBody EXCEPT !.email = Str(CyEmail)],
    [EmptyBody EXCEPT !.email = Str(CyEmail), !.age = Int0(MaxAge + 1)],
    [EmptyBody EXCEPT !.email = Str(DisposableEmail)],
    [EmptyBody EXCEPT !.hobbies = Arr(Rep(PaddedChess, MaxHobbies))],
    [EmptyBody EXCEPT !.hobbies = Arr(Rep(Chess, MaxHobbies + 1))],
    [EmptyBody EXCEPT !.hobbies = Arr(<<Go, OneLetterHobby>>)],
    [EmptyBody EXCEPT !.name = Str(PaddedBobRay), !.age = Null, !.isActive = Bool(FALSE)],
    [EmptyBody EXCEPT !.name = Str(LongName)],
    [EmptyBody EXCEPT !.age = Num(13, 5)],
    [EmptyBody EXCEPT !.age = Int0(0)],
    [EmptyBody EXCEPT !.age = Int0(MaxAge + 1)],
    [EmptyBody EXCEPT !.profileScore = Int0(99)] }

\* arguments of addHobby and removeHobby
HobbyArgs == {Chess, PaddedChess, Go, OneLetterHobby}

-----------------------------------------------------------------------------
(* State *)

\* the ObjectIds of the documents a database may already hold
Ids == {1, 2}

HexChars == Range(DigitChars) \cup {"a","b","c","d","e","f","A","B","C","D","E","F"}

\* IdRegex as it would be were the quantifier {1,24}
IdRegexUpToLength(s) ==
  /\ Len(s) >= 1
  /\ Len(s) <= 24
  /\ \A i \in DOMAIN s : s[i] \in HexChars

\* /^[0-9a-fA-F]{24}$/ on req.params.id
IdRegex(s) ==
  /\ Len(s) = 24
  /\ \A i \in DOMAIN s : s[i] \in HexChars

\* the :id path parameter that names ObjectId i
IdParam(i) == <<"A", "f">> \o Rep("0", 21) \o <<DigitChars[i + 1]>>

\* 23 hexadecimal characters
ShortId == SubSeq(IdParam(1), 1, 23)

\* 24 characters, one of them not hexadecimal
NotHexId == [IdParam(1) EXCEPT ![1] = "g"]

MalformedIds == {ShortId, NotHexId}

\* the :id path parameters of the requests
IdParams == { IdParam(i) : i \in Ids } \cup MalformedIds

\* the ObjectId a path parameter is cast to: 0 names no stored document
ObjectId(s) ==
  IF \E i \in 1..9 : s = IdParam(i)
    THEN CHOOSE i \in 1..9 : s = IdParam(i)
    ELSE 0

Clients == {"c1", "c2"}

\* the requests and model-method calls one behaviour starts
MaxRequests == 2

\* ten different hobbies: h0 .. h9
TenHobbies == [i \in 1..MaxHobbies |-> <<"h", DigitChars[i]>>]

\* the documents a database the server connects to may already hold
SeedUsers ==
  [ i \in Ids |->
      IF i = 1
        THEN [ name |-> Str(AnnLee), email |-> Str(AnnEmail), age |-> Int0(25),
               hobbies |-> <<Chess, Reading>>, isActive |-> TRUE,
               profileScore |-> Int0(76) ]
        ELSE [ name |-> Str(BobRay), email |-> Str(BobEmail), age |-> Null,
               hobbies |-> TenHobbies, isActive |-> TRUE,
               profileScore |-> Int0(80) ] ]

\* req.query: a parameter the query string does not carry is Undefined
NoQuery ==
  [ page |-> Undefined, limit |-> Undefined, sortBy |-> Undefined,
    order |-> Undefined, name |-> Undefined, email |-> Undefined,
    minAge |-> Undefined, maxAge |-> Undefined, hobby |-> Undefined,
    isActive |-> Undefined, q |-> Undefined, field |-> Undefined ]

\* the pagination object of a list response
NoPagination ==
  [ currentPage |-> Undefined, pageSize |-> Undefined, totalUsers |-> 0,
    totalPages |-> Undefined, hasNextPage |-> FALSE, hasPreviousPage |-> FALSE ]

\* the quotient num / den, kept as a fraction
Ratio(num, den) == [num |-> num, den |-> den]

\* formattedStats of a stats response; an average is a Ratio
NoStats ==
  [ users |-> 0, active |-> 0, inactive |-> 0,
    ageAverage |-> Ratio(0, 1), ageMin |-> 0, ageMax |-> 0, groups |-> <<>>,
    popular |-> <<>>,
    averageScore |-> Ratio(0, 1), minScore |-> 0, maxScore |-> 0 ]

\* a request: the handler (op), where it stands (pc), its inputs (param: the
\* :id path parameter, id: the ObjectId it names, body as far as the handler
\* has read it, query), the number of Model calls it has issued (calls) and
\* its response (status, errors, data, pagination, stats)
NoRequest ==
  [ op |-> "none", pc |-> "idle", param |-> <<>>, id |-> 0, body |-> EmptyBody,
    query |-> NoQuery, calls |-> 0, status |-> 0, errors |-> {}, data |-> <<>>,
    pagination |-> NoPagination, stats |-> NoStats ]

NoDocument ==
  [ d |-> <<>>, id |-> 0, call |-> "none", arg |-> <<>>, before |-> <<>>,
    result |-> "none", errors |-> {} ]

\* DatabaseConnection.maxRetries
maxRetries == 3

\* new DatabaseConnection()
NewDatabase == [ isConnected |-> FALSE, connection |-> "null", retryCount |-> 0 ]

\* the DatabaseConnection after a successful connect()
Connected ==
  [ isConnected |-> TRUE, connection |-> "mongoose.connection", retryCount |-> 0 ]

\* nothing left to run: no mongoose.connect() awaited (attempts), no 2 s wait
\* of a retry (retries), no 5 s timer of a disconnected listener
\* (reconnects), no connection.close() awaited by a SIGINT listener of
\* setupEventListeners (closes), no 10 s timer of gracefulShutdown (force),
\* no database.disconnect() awaited by the callback of server.close
\* (shutdown)
Idle ==
  [ attempts |-> 0, retries |-> 0, reconnects |-> 0, closes |-> 0, force |-> 0,
    shutdown |-> "none" ]

\* the process while it serves requests: connected at the first attempt,
\* listening
Serving ==
  /\ database = Connected
  /\ mongoose = "connected"
  /\ listeners = 1
  /\ server = "listening"
  /\ exitCode = <<>>
  /\ pending = Idle

Init ==
  /\ Serving
  /\ db \in { [i \in S |-> SeedUsers[i]] : S \in {{}, Ids} }
  /\ req = [c \in Clients |-> NoRequest]
  /\ docs = [c \in Clients |-> NoDocument]
  /\ started = 0

-----------------------------------------------------------------------------
(* Mongoose: save, queries and the unique index *)

\* this.save() called by updateProfileScore while the outer save() of the
\* same document is still running its pre('save') hooks: Model.prototype.save
\* finds $__.saving set and rejects
NestedSave == "ParallelSaveError"

\* doc.save() up to the end of its pre('save') hooks: validation first, then
\* the schema's hook, which awaits updateProfileScore: the score is assigned,
\* then the nested save() settles; its rejection is the hook's error
Save(d) ==
  LET errs == ValidateDoc(d)
      scored == [d EXCEPT !.profileScore = Int0(ComputeScore(d))]
  IN IF errs # {}
       THEN [doc |-> d, err |-> "ValidationError", errors |-> errs]
       ELSE [doc |-> [scored EXCEPT !.email =
                        IF Truthy(scored.email) /\ NestedSave = "resolved"
                          THEN Str(ToLowerCase(scored.email.s)) ELSE scored.email],
             err |-> IF NestedSave = "resolved" THEN "none" ELSE NestedSave,
             errors |-> {}]

\* DuplicateKey as it would be were the index on email not unique
DuplicateKeyNotEnforced(coll, id, email) == FALSE

\* the unique index on email: a write that would store `email` on document `id`
\* while another document holds it is refused with E11000
DuplicateKey(coll, id, email) ==
  \E other \in DOMAIN coll : other # id /\ coll[other].email = email

\* the _id of an inserted document
NewObjectId(coll) ==
  CHOOSE i \in 1..(Cardinality(Ids) + MaxRequests + 1) : i \notin DOMAIN coll

\* User.findOne({ email: e }): the filter is cast with the path's setters
FindOneByEmail(coll, e) ==
  { id \in DOMAIN coll : coll[id].email = CastEmail(e) }

-----------------------------------------------------------------------------
(* MongoDB queries: $regex, find with sort, skip and limit *)

\* the patterns of the requests are made of literal characters, "." and "(":
\* a pattern with an unclosed group does not compile and the query fails
RegexCompiles(p) == \A i \in DOMAIN p : p[i] # "("

\* pattern p matches subject s from position k + 1 on, case ignored
RegexMatchAt(p, s, k) ==
  /\ k + Len(p) <= Len(s)
  /\ \A i \in DOMAIN p : p[i] = "." \/ LowerOf(p[i]) = LowerOf(s[k + i])

\* { $regex: p, $options: 'i' }: p matches somewhere in s
RegexSearch(p, s) == \E k \in 0..Len(s) : RegexMatchAt(p, s, k)

\* { $regex: `^${p}$`, $options: 'i' }
RegexWhole(p, s) == Len(p) = Len(s) /\ RegexMatchAt(p, s, 0)

\* the filter getAllUsers builds from req.query
ListFilter(query) ==
  [ name |-> query.name,
    email |-> query.email,
    gte |-> IF Truthy(query.minAge) THEN parseInt(query.minAge) ELSE Undefined,
    lte |-> IF Truthy(query.maxAge) THEN parseInt(query.maxAge) ELSE Undefined,
    hobbies |-> query.hobby,
    isActive |-> IF query.isActive.t # "undefined"
                   THEN Bool(query.isActive = Str(<<"t","r","u","e">>))
                   ELSE Undefined ]

\* the filter cannot be run: a pattern does not compile, or an age bound is
\* NaN, which the Number path refuses to cast
FilterFails(f) ==
  \/ Truthy(f.name) /\ ~RegexCompiles(f.name.s)
  \/ Truthy(f.email) /\ ~RegexCompiles(f.email.s)
  \/ f.gte.t = "NaN"
  \/ f.lte.t = "NaN"

\* document d satisfies the filter
Matches(d, f) ==
  /\ Truthy(f.name) => RegexSearch(f.name.s, d.name.s)
  /\ Truthy(f.email) => RegexWhole(f.email.s, d.email.s)
  /\ IsNumber(f.gte) => IsNumber(d.age) /\ d.age.n >= f.gte.n
  /\ IsNumber(f.lte) => IsNumber(d.age) /\ d.age.n <= f.lte.n
  /\ Truthy(f.hobbies) => \E i \in DOMAIN d.hobbies : d.hobbies[i] = Trim(f.hobbies.s)
  /\ f.isActive.t = "boolean" => d.isActive = (f.isActive.n = 1)

\* the value documents are sorted by: createdAt grows with the _id; a null
\* age sorts before every number
SortKey(coll, id, sortBy) ==
  IF sortBy = <<"a","g","e">>
    THEN IF IsNumber(coll[id].age) THEN coll[id].age.n ELSE 0 - 1
    ELSE id

\* document i comes before document j under { [sortBy]: sortOrder }
Before(coll, i, j, sortBy, sortOrder) ==
  LET ki == SortKey(coll, i, sortBy)
      kj == SortKey(coll, j, sortBy)
  IN IF ki = kj THEN i < j
     ELSE IF sortOrder = 1 THEN ki < kj ELSE kj < ki

\* the ids of S in sort order
Sorted(coll, S, sortBy, sortOrder) ==
  [ k \in 1..Cardinality(S) |->
      CHOOSE i \in S :
        Cardinality({ j \in S : Before(coll, j, i, sortBy, sortOrder) }) = k - 1 ]

\* skip(n) and limit(n) on a sorted sequence: limit 0 is no limit, a negative
\* limit is its absolute value
SkipLimit(q, skip, limit) ==
  LET count == IF limit = 0 THEN Len(q) ELSE IF limit < 0 THEN 0 - limit ELSE limit
      last == IF skip + count < Len(q) THEN skip + count ELSE Len(q)
  IN SubSeq(q, skip + 1, last)


-----------------------------------------------------------------------------
(* UserController *)

CanStart(c) == req[c].pc \in {"idle", "done"} /\ started < MaxRequests

\* a handler runs up to its first await (pc names the call it awaits) or to
\* its response (pc = "done")
Begin(c, op, id, body, pc) ==
  [req EXCEPT ![c] = [ NoRequest EXCEPT !.op = op, !.pc = pc, !.id = id,
                                        !.body = body,
                                        !.calls = IF pc = "done" THEN 0 ELSE 1 ]]

\* the answer to a malformed :id: no body read, no Model call issued
InvalidIdFormat(c, op, id) ==
  [Begin(c, op, 0, EmptyBody, "done") EXCEPT ![c].param = id, ![c].status = 400,
                                             ![c].errors = {"id"}]

Respond(c, status, errors, data) ==
  [req EXCEPT ![c].pc = "done", ![c].status = status, ![c].errors = errors,
              ![c].data = data]

\* createUser up to its first await: the required-field check
createUser(c, body) ==
  /\ CanStart(c)
  /\ started' = started + 1
  /\ IF ~Truthy(body.name) \/ ~Truthy(body.email)
       THEN req' = [Begin(c, "create", 0, body, "done") EXCEPT ![c].status = 400]
       ELSE req' = Begin(c, "create", 0, body, "findOne")
  /\ docs' = [docs EXCEPT ![c] = NoDocument]
  /\ UNCHANGED db

\* the object createUser builds from the body
UserData(body) ==
  [ name |-> Str(Trim(body.name.s)),
    email |-> Str(Trim(ToLowerCase(body.email.s))),
    age |-> IF Truthy(body.age) THEN parseInt(body.age) ELSE Null,
    hobbies |-> IF body.hobbies.t = "array"
                  THEN [i \in DOMAIN body.hobbies.a |-> Trim(body.hobbies.a[i])]
                  ELSE <<>> ]

\* createUser from the answer of findOne to the call of newUser.save
createUserFindOne(c) ==
  /\ req[c].op = "create"
  /\ req[c].pc = "findOne"
  /\ IF FindOneByEmail(db, Str(ToLowerCase(req[c].body.email.s))) # {}
       THEN /\ req' = Respond(c, 409, {"email"}, <<>>)
            /\ UNCHANGED docs
       ELSE /\ req' = [req EXCEPT ![c].pc = "save", ![c].calls = @ + 1]
            /\ docs' = [docs EXCEPT ![c].d = <<NewUser(UserData(req[c].body))>>]
  /\ UNCHANGED <<db, started>>

\* newUser.save and its callback
createUserSave(c) ==
  /\ req[c].op = "create"
  /\ req[c].pc = "save"
  /\ LET r == Save(docs[c].d[1])
     IN /\ docs' = [docs EXCEPT ![c].d = <<r.doc>>]
        /\ IF r.err = "ValidationError"
             THEN /\ req' = Respond(c, 400, r.errors, <<>>)
                  /\ UNCHANGED db
             ELSE IF r.err = "none"
               THEN IF DuplicateKey(db, 0, r.doc.email)
                      THEN /\ req' = Respond(c, 409, {"email"}, <<>>)
                           /\ UNCHANGED db
                      ELSE /\ req' = Respond(c, 201, {}, <<r.doc>>)
                           /\ db' = (NewObjectId(db) :> r.doc) @@ db
               ELSE /\ req' = Respond(c, 500, {}, <<>>)
                    /\ UNCHANGED db
  /\ UNCHANGED started

\* updateUser's cleaning of { ...req.body }
CleanUpdate(body) ==
  [ body EXCEPT
      !.email = IF Truthy(body.email)
                  THEN Str(Trim(ToLowerCase(body.email.s))) ELSE body.email,
      !.name = IF Truthy(body.name) THEN Str(Trim(body.name.s)) ELSE body.name,
      !.hobbies = IF Truthy(body.hobbies) /\ body.hobbies.t = "array"
                    THEN Arr([i \in DOMAIN body.hobbies.a |-> Trim(body.hobbies.a[i])])
                    ELSE body.hobbies,
      !.age = IF Truthy(body.age) THEN parseInt(body.age) ELSE body.age ]

\* the update findByIdAndUpdate sends: the paths the body carries, cast with
\* their setters
CastUpdate(upd) ==
  [ upd EXCEPT !.name = CastName(upd.name),
               !.email = CastEmail(upd.email),
               !.hobbies = IF upd.hobbies.t = "array"
                             THEN Arr(CastHobbies(upd.hobbies.a)) ELSE upd.hobbies ]

Has(v) == v.t # "undefined"

\* runValidators: the validators of the paths the update sets
ValidateUpdate(u) ==
  (IF Has(u.name) /\ ~NameOk(u.name) THEN {"name"} ELSE {})
  \cup (IF Has(u.email) /\ ~EmailOk(u.email) THEN {"email"} ELSE {})
  \cup (IF Has(u.age) /\ ~AgeOk(u.age) THEN {"age"} ELSE {})
  \cup (IF Has(u.hobbies) THEN HobbiesErrors(u.hobbies.a) ELSE {})
  \cup (IF Has(u.profileScore) /\ ~ScoreOk(u.profileScore) THEN {"profileScore"} ELSE {})

\* the document after $set of the update's paths
ApplyUpdate(d, u) ==
  [ name |-> IF Has(u.name) THEN u.name ELSE d.name,
    email |-> IF Has(u.email) THEN u.email ELSE d.email,
    age |-> IF Has(u.age) THEN u.age ELSE d.age,
    hobbies |-> IF Has(u.hobbies) THEN u.hobbies.a ELSE d.hobbies,
    isActive |-> IF Has(u.isActive) THEN u.isActive.n = 1 ELSE d.isActive,
    profileScore |-> IF Has(u.profileScore) THEN u.profileScore ELSE d.profileScore ]

\* updateUser up to its first await: the id check, then findOne when the body
\* carries an email, findByIdAndUpdate otherwise
updateUser(c, id, body) ==
  /\ CanStart(c)
  /\ started' = started + 1
  /\ IF ~IdRegex(id)
       THEN req' = InvalidIdFormat(c, "update", id)
       ELSE req' = [Begin(c, "update", ObjectId(id), body,
                          IF Truthy(body.email) THEN "findOne" ELSE "write")
                      EXCEPT ![c].param = id]
  /\ docs' = [docs EXCEPT ![c] = NoDocument]
  /\ UNCHANGED db

\* updateUserFindOne as it would be were the filter { email, _id: id }
updateUserFindOneOwnId(c) ==
  /\ req[c].op = "update"
  /\ req[c].pc = "findOne"
  /\ IF FindOneByEmail(db, CleanUpdate(req[c].body).email) \cap {req[c].id} # {}
       THEN req' = Respond(c, 409, {"email"}, <<>>)
       ELSE req' = [req EXCEPT ![c].pc = "write", ![c].calls = @ + 1]
  /\ UNCHANGED <<db, docs, started>>

\* updateUser from the answer of findOne({ email, _id: { $ne: id } })
updateUserFindOne(c) ==
  /\ req[c].op = "update"
  /\ req[c].pc = "findOne"
  /\ IF FindOneByEmail(db, CleanUpdate(req[c].body).email) \ {req[c].id} # {}
       THEN req' = Respond(c, 409, {"email"}, <<>>)
       ELSE req' = [req EXCEPT ![c].pc = "write", ![c].calls = @ + 1]
  /\ UNCHANGED <<db, docs, started>>

\* findByIdAndUpdate(id, updateData, { new: true, runValidators: true }) and
\* the response
updateUserWrite(c) ==
  /\ req[c].op = "update"
  /\ req[c].pc = "write"
  /\ LET id == req[c].id
         u == CastUpdate(CleanUpdate(req[c].body))
         errs == ValidateUpdate(u)
     IN IF errs # {}
          THEN /\ req' = Respond(c, 400, errs, <<>>)
               /\ UNCHANGED db
          ELSE IF id \notin DOMAIN db
            THEN /\ req' = Respond(c, 404, {}, <<>>)
                 /\ UNCHANGED db
            ELSE IF Has(u.email) /\ DuplicateKey(db, id, u.email)
              THEN /\ req' = Respond(c, 409, {"email"}, <<>>)
                   /\ UNCHANGED db
              ELSE /\ db' = [db EXCEPT ![id] = ApplyUpdate(db[id], u)]
                   /\ req' = Respond(c, 200, {}, <<ApplyUpdate(db[id], u)>>)
  /\ UNCHANGED <<docs, started>>

\* deleteUser as it would be were the record flagged inactive and kept
deleteUserSoft(c, id) ==
  /\ CanStart(c)
  /\ started' = started + 1
  /\ LET oid == ObjectId(id)
     IN IF ~IdRegex(id)
          THEN /\ req' = InvalidIdFormat(c, "delete", id)
               /\ UNCHANGED db
          ELSE IF oid \in DOMAIN db
            THEN /\ db' = [db EXCEPT ![oid].isActive = FALSE]
                 /\ req' = [Begin(c, "delete", oid, EmptyBody, "done")
                              EXCEPT ![c].param = id, ![c].calls = 1,
                                     ![c].status = 200, ![c].data = <<db[oid]>>]
            ELSE /\ UNCHANGED db
                 /\ req' = [Begin(c, "delete", oid, EmptyBody, "done")
                              EXCEPT ![c].param = id, ![c].calls = 1,
                                     ![c].status = 404]
  /\ docs' = [docs EXCEPT ![c] = NoDocument]

\* deleteUser: the id check, findByIdAndDelete and the response
deleteUser(c, id) ==
  /\ CanStart(c)
  /\ started' = started + 1
  /\ LET oid == ObjectId(id)
     IN IF ~IdRegex(id)
          THEN /\ req' = InvalidIdFormat(c, "delete", id)
               /\ UNCHANGED db
          ELSE IF oid \in DOMAIN db
            THEN /\ db' = [i \in DOMAIN db \ {oid} |-> db[i]]
                 /\ req' = [Begin(c, "delete", oid, EmptyBody, "done")
                              EXCEPT ![c].param = id, ![c].calls = 1,
                                     ![c].status = 200, ![c].data = <<db[oid]>>]
            ELSE /\ UNCHANGED db
                 /\ req' = [Begin(c, "delete", oid, EmptyBody, "done")
                              EXCEPT ![c].param = id, ![c].calls = 1,
                                     ![c].status = 404]
  /\ docs' = [docs EXCEPT ![c] = NoDocument]

\* getUserById: the id check, findById(id).lean() and the response
getUserById(c, id) ==
  /\ CanStart(c)
  /\ started' = started + 1
  /\ LET oid == ObjectId(id)
     IN IF ~IdRegex(id)
          THEN req' = InvalidIdFormat(c, "get", id)
          ELSE IF oid \in DOMAIN db
            THEN req' = [Begin(c, "get", oid, EmptyBody, "done")
                           EXCEPT ![c].param = id, ![c].calls = 1,
                                  ![c].status = 200, ![c].data = <<db[oid]>>]
            ELSE req' = [Begin(c, "get", oid, EmptyBody, "done")
                           EXCEPT ![c].param = id, ![c].calls = 1,
                                  ![c].status = 404]
  /\ docs' = [docs EXCEPT ![c] = NoDocument]
  /\ UNCHANGED db

\* the defaults of getAllUsers' destructuring of req.query
DefaultPage == 1
DefaultLimit == 10

Desc == <<"d","e","s","c">>
CreatedAt == <<"c","r","e","a","t","e","d","A","t">>

\* the response of a handler that reads the collection and answers in one
\* piece: find, countDocuments and aggregate run on the collection as it is
Answer(c, op, query, calls, status, data, pagination) ==
  [req EXCEPT ![c] = [ NoRequest EXCEPT !.op = op, !.pc = "done", !.query = query,
                                        !.calls = calls, !.status = status,
                                        !.data = data, !.pagination = pagination ]]

\* getAllUsers.  A NaN skip or limit reaches the server as a double: a server
\* that reads it as an integer takes it for 0 (lenient), another refuses the
\* command; a negative skip is always refused
getAllUsers(c, query, lenient) ==
  /\ CanStart(c)
  /\ started' = started + 1
  /\ LET page == IF query.page.t = "undefined" THEN Int0(DefaultPage) ELSE query.page
         limit == IF query.limit.t = "undefined" THEN Int0(DefaultLimit) ELSE query.limit
         sortBy == IF query.sortBy.t = "undefined" THEN CreatedAt ELSE query.sortBy.s
         filter == ListFilter(query)
         pageNumber == parseInt(page)
         pageSize == parseInt(limit)
         skip == Times(Minus(pageNumber, Int0(1)), pageSize)
         sortOrder == IF query.order.t = "undefined" \/ query.order = Str(Desc)
                        THEN 0 - 1 ELSE 1
         fails == \/ FilterFails(filter)
                  \/ IsNumber(skip) /\ skip.n < 0
                  \/ ~lenient /\ (~IsNumber(skip) \/ ~IsNumber(pageSize))
         matching == { id \in DOMAIN db : Matches(db[id], filter) }
         ids == SkipLimit(Sorted(db, matching, sortBy, sortOrder),
                          IF IsNumber(skip) THEN skip.n ELSE 0,
                          IF IsNumber(pageSize) THEN pageSize.n ELSE 0)
         totalUsers == Cardinality(matching)
         totalPages == CeilDiv(totalUsers, pageSize)
     IN IF fails
          THEN req' = Answer(c, "list", query, 2, 500, <<>>, NoPagination)
          ELSE req' = Answer(c, "list", query, 2, 200,
                             [k \in DOMAIN ids |-> db[ids[k]]],
                             [ currentPage |-> pageNumber,
                               pageSize |-> pageSize,
                               totalUsers |-> totalUsers,
                               totalPages |-> totalPages,
                               hasNextPage |-> Less(pageNumber, totalPages),
                               hasPreviousPage |-> Less(Int0(1), pageNumber) ])
  /\ docs' = [docs EXCEPT ![c] = NoDocument]
  /\ UNCHANGED db

\* .limit(50) of searchUsers
SearchLimit == 50

FieldName == <<"n","a","m","e">>
FieldEmail == <<"e","m","a","i","l">>
FieldHobby == <<"h","o","b","b","y">>
FieldAll == <<"a","l","l">>

\* the cases of searchUsers' switch (field)
SearchFields == {FieldName, FieldEmail, FieldHobby, FieldAll}

\* document d satisfies the query searchUsers builds for `field` from
\* searchRegex = { $regex: q, $options: 'i' }
SearchMatches(d, q, field) ==
  LET name == RegexSearch(q, d.name.s)
      email == RegexSearch(q, d.email.s)
      hobbies == \E i \in DOMAIN d.hobbies : RegexSearch(q, d.hobbies[i])
  IN CASE field = FieldName -> name
       [] field = FieldEmail -> email
       [] field = FieldHobby -> hobbies
       [] OTHER -> name \/ email \/ hobbies

\* the first n elements of a sequence
Take(q, n) == SubSeq(q, 1, IF n < Len(q) THEN n ELSE Len(q))

\* the ids of a collection in the order a find without sort returns them:
\* the order of insertion
NaturalOrder(coll) ==
  IF DOMAIN coll = {} THEN <<>>
  ELSE LET last == CHOOSE m \in DOMAIN coll : \A j \in DOMAIN coll : j <= m
       IN SelectSeq([i \in 1..last |-> i], LAMBDA i : i \in DOMAIN coll)

\* searchUsers
searchUsers(c, query) ==
  /\ CanStart(c)
  /\ started' = started + 1
  /\ LET q == query.q
         field == IF query.field.t = "undefined" THEN Str(FieldAll) ELSE query.field
         matching == SelectSeq(NaturalOrder(db),
                               LAMBDA id : SearchMatches(db[id], q.s, field.s))
         ids == Take(matching, SearchLimit)
     IN IF ~Truthy(q)
          THEN req' = Answer(c, "search", query, 0, 400, <<>>, NoPagination)
          ELSE IF field.s \notin SearchFields
            THEN req' = Answer(c, "search", query, 0, 400, <<>>, NoPagination)
            ELSE IF ~RegexCompiles(q.s)
              THEN req' = Answer(c, "search", query, 1, 500, <<>>, NoPagination)
              ELSE req' = Answer(c, "search", query, 1, 200,
                                 [k \in DOMAIN ids |-> db[ids[k]]], NoPagination)
  /\ docs' = [docs EXCEPT ![c] = NoDocument]
  /\ UNCHANGED db

\* ActiveMatch as it would be were the $match stage missing
ActiveMatchAny(d) == TRUE

\* { $match: { isActive: true } }
ActiveMatch(d) == d.isActive = TRUE

\* AgeMatch as it would be were the $match stage missing
AgeMatchAny(d) == TRUE

\* { $match: { age: { $ne: null } } }
AgeMatch(d) == d.age.t # "null"

\* the boundaries of the $bucket stage, and its default bucket
Boundaries == <<0, 18, 30, 50, 100>>
Other == Str(<<"O","t","h","e","r">>)

\* BucketOf as it would be were each bucket closed at its upper boundary
BucketOfUpperClosed(age) ==
  IF \E k \in 1..(Len(Boundaries) - 1) :
       IsNumber(age) /\ Boundaries[k] < age.n /\ age.n <= Boundaries[k + 1]
    THEN Int0(Boundaries[CHOOSE k \in 1..(Len(Boundaries) - 1) :
                           Boundaries[k] < age.n /\ age.n <= Boundaries[k + 1]])
    ELSE Other

\* the _id of the bucket $bucket puts a value in: the lower boundary of the
\* interval [lower, upper) that holds it, Other when none does
BucketOf(age) ==
  IF \E k \in 1..(Len(Boundaries) - 1) :
       IsNumber(age) /\ Boundaries[k] <= age.n /\ age.n < Boundaries[k + 1]
    THEN Int0(Boundaries[CHOOSE k \in 1..(Len(Boundaries) - 1) :
                           Boundaries[k] <= age.n /\ age.n < Boundaries[k + 1]])
    ELSE Other

\* $sum, $min and $max over a non-empty sequence of numbers
RECURSIVE SumOf(_)
SumOf(q) == IF q = <<>> THEN 0 ELSE Head(q) + SumOf(Tail(q))

MinOf(q) == CHOOSE x \in Range(q) : \A y \in Range(q) : x <= y

MaxOf(q) == CHOOSE x \in Range(q) : \A y \in Range(q) : y <= x

\* a $group with _id: null over the numbers q of the documents it receives:
\* no result on no document, nulls (read as 0 by `|| 0`) on no number
GroupStats(documents, q) ==
  IF documents = <<>> THEN <<>>
  ELSE IF q = <<>> THEN <<[average |-> Ratio(0, 1), min |-> 0, max |-> 0]>>
  ELSE <<[average |-> Ratio(SumOf(q), Len(q)), min |-> MinOf(q), max |-> MaxOf(q)]>>

\* the ageGroups facet: the non-empty buckets in the order of their
\* boundaries, Other last, each with its count and its (name, age) pairs
AgeGroups(coll) ==
  LET matched == SelectSeq(NaturalOrder(coll), LAMBDA i : AgeMatch(coll[i]))
      bucket(b) ==
        LET members == SelectSeq(matched, LAMBDA i : BucketOf(coll[i].age) = b)
        IN [ id |-> b, count |-> Len(members),
             users |-> [k \in DOMAIN members |->
                          [name |-> coll[members[k]].name, age |-> coll[members[k]].age]] ]
      all == [k \in 1..Len(Boundaries) |->
                bucket(IF k < Len(Boundaries) THEN Int0(Boundaries[k]) ELSE Other)]
  IN SelectSeq(all, LAMBDA b : b.count > 0)

\* $unwind: '$hobbies' and $group by hobby: each hobby with its count
HobbyGroups(coll) ==
  LET unwound == UNION { { <<i, j>> : j \in DOMAIN coll[i].hobbies } : i \in DOMAIN coll }
      hobbies == { coll[p[1]].hobbies[p[2]] : p \in unwound }
  IN { [ id |-> h,
         count |-> Cardinality({ p \in unwound : coll[p[1]].hobbies[p[2]] = h }) ] :
       h \in hobbies }

\* $limit: 10 of the popularHobbies facet
PopularLimit == 10

\* the orders { $sort: { count: -1 } } may give the groups: descending by
\* count, groups of equal count in any order (the sort has no second key and
\* $group emits its groups in no fixed order)
RECURSIVE SortByCount(_)
SortByCount(groups) ==
  IF groups = {} THEN { <<>> }
  ELSE UNION { { <<g>> \o rest : rest \in SortByCount(groups \ {g}) } :
               g \in { g \in groups : \A h \in groups : g.count >= h.count } }

\* `top` may be what { $sort: { count: -1 } }, { $limit: 10 } leaves of the
\* groups: the first PopularLimit of one of the orders of the sort
MostPopular(groups, top) ==
  /\ Len(top) = (IF Cardinality(groups) < PopularLimit
                   THEN Cardinality(groups) ELSE PopularLimit)
  /\ Range(top) \subseteq groups
  /\ \A j \in DOMAIN top : \A k \in DOMAIN top :
       /\ j < k => top[j].count >= top[k].count
       /\ j # k => top[j] # top[k]
  /\ \A g \in groups \ Range(top) : \A k \in DOMAIN top : top[k].count >= g.count

\* the results the popularHobbies facet may have
PopularHobbies(coll) ==
  LET groups == HobbyGroups(coll)
      kept == { s \in SUBSET groups :
                  /\ Cardinality(s) = (IF Cardinality(groups) < PopularLimit
                                         THEN Cardinality(groups) ELSE PopularLimit)
                  /\ \A g \in s : \A h \in groups \ s : g.count >= h.count }
  IN UNION { SortByCount(s) : s \in kept }

\* getUserStats: the $facet aggregation and formattedStats
getUserStats(c, popular) ==
  /\ CanStart(c)
  /\ started' = started + 1
  /\ MostPopular(HobbyGroups(db), popular)
  /\ LET all == NaturalOrder(db)
         totalCount == IF all = <<>> THEN <<>> ELSE <<[count |-> Len(all)]>>
         active == SelectSeq(all, LAMBDA i : ActiveMatch(db[i]))
         activeCount == IF active = <<>> THEN <<>> ELSE <<[count |-> Len(active)]>>
         aged == SelectSeq(all, LAMBDA i : AgeMatch(db[i]))
         ages == SelectSeq(aged, LAMBDA i : IsNumber(db[i].age))
         ageStats == GroupStats(aged, [k \in DOMAIN ages |-> db[ages[k]].age.n])
         profileScores == GroupStats(all, [k \in DOMAIN all |-> db[all[k]].profileScore.n])
         users == IF totalCount = <<>> THEN 0 ELSE totalCount[1].count
         activeUsers == IF activeCount = <<>> THEN 0 ELSE activeCount[1].count
         formattedStats ==
           [ users |-> users,
             active |-> activeUsers,
             inactive |-> users - activeUsers,
             ageAverage |-> IF ageStats = <<>> THEN Ratio(0, 1) ELSE ageStats[1].average,
             ageMin |-> IF ageStats = <<>> THEN 0 ELSE ageStats[1].min,
             ageMax |-> IF ageStats = <<>> THEN 0 ELSE ageStats[1].max,
             groups |-> AgeGroups(db),
             popular |-> popular,
             averageScore |-> IF profileScores = <<>> THEN Ratio(0, 1)
                              ELSE profileScores[1].average,
             minScore |-> IF profileScores = <<>> THEN 0 ELSE profileScores[1].min,
             maxScore |-> IF profileScores = <<>> THEN 0 ELSE profileScores[1].max ]
     IN req' = [ Answer(c, "stats", NoQuery, 1, 200, <<>>, NoPagination)
                   EXCEPT ![c].stats = formattedStats ]
  /\ docs' = [docs EXCEPT ![c] = NoDocument]
  /\ UNCHANGED db

-----------------------------------------------------------------------------
(* Document methods of the User model *)

\* a stored document hydrated as a User document, on which the instance
\* methods are called
FindById(c, id) ==
  /\ CanStart(c)
  /\ started' = started + 1
  /\ id \in DOMAIN db
  /\ docs' = [docs EXCEPT ![c] = [NoDocument EXCEPT !.d = <<db[id]>>, !.id = id]]
  /\ req' = [req EXCEPT ![c] = NoRequest]
  /\ UNCHANGED db

HoldsDocument(c) ==
  /\ req[c].pc = "idle"
  /\ docs[c].id # 0
  /\ started < MaxRequests

\* the outcome of this.save() as a method's caller sees it: the document after
\* the hooks and how the promise settles
Saved(c, call, arg, d) ==
  LET r == Save(d)
  IN [ d |-> <<r.doc>>, id |-> docs[c].id, call |-> call, arg |-> arg,
       before |-> docs[c].d[1].hobbies,
       result |-> IF r.err = "none" THEN "saved" ELSE r.err,
       errors |-> r.errors ]

NotSaved(c, call, arg) ==
  [ docs[c] EXCEPT !.call = call, !.arg = arg, !.before = docs[c].d[1].hobbies,
                   !.result = "unchanged", !.errors = {} ]

\* hobbies.includes(hobby): strict equality with the argument as given
Includes(hs, hobby) == \E i \in DOMAIN hs : hs[i] = hobby

\* hobbies.push(hobby): the element is cast with the element setter (trim)
Push(hs, hobby) == Append(hs, Trim(hobby))

\* addHobby
addHobby(c, hobby) ==
  /\ HoldsDocument(c)
  /\ started' = started + 1
  /\ LET d == docs[c].d[1]
     IN IF ~Includes(d.hobbies, hobby) /\ Len(d.hobbies) < MaxHobbies
          THEN docs' = [docs EXCEPT ![c] =
                 Saved(c, "addHobby", hobby, [d EXCEPT !.hobbies = Push(d.hobbies, hobby)])]
          ELSE docs' = [docs EXCEPT ![c] = NotSaved(c, "addHobby", hobby)]
  /\ UNCHANGED <<db, req>>

\* hobbies.indexOf(hobby): 0 when absent (positions count from 1 here)
IndexOf(hs, hobby) ==
  IF Includes(hs, hobby)
    THEN CHOOSE i \in DOMAIN hs : hs[i] = hobby /\ \A j \in 1..(i - 1) : hs[j] # hobby
    ELSE 0

\* removeHobby
removeHobby(c, hobby) ==
  /\ HoldsDocument(c)
  /\ started' = started + 1
  /\ LET d == docs[c].d[1]
         index == IndexOf(d.hobbies, hobby)
     IN IF index > 0
          THEN docs' = [docs EXCEPT ![c] =
                 Saved(c, "removeHobby", hobby, [d EXCEPT !.hobbies = Splice(d.hobbies, index)])]
          ELSE docs' = [docs EXCEPT ![c] = NotSaved(c, "removeHobby", hobby)]
  /\ UNCHANGED <<db, req>>

\* updateProfileScore called on a document: the score is assigned, then
\* this.save() runs validation and the pre('save') hook
updateProfileScore(c) ==
  /\ docs[c].d # <<>>
  /\ docs[c].call = "none"
  /\ req[c].pc = "idle"
  /\ LET d == docs[c].d[1]
     IN docs' = [docs EXCEPT ![c] =
          Saved(c, "updateProfileScore", <<>>,
                [d EXCEPT !.profileScore = Int0(ComputeScore(d))])]
  /\ UNCHANGED <<db, req, started>>

-----------------------------------------------------------------------------

Next ==
  \/ \E c \in Clients : \E body \in CreateBodies : createUser(c, body) /\ UNCHANGED node
  \/ \E c \in Clients : createUserFindOne(c) /\ UNCHANGED node
  \/ \E c \in Clients : createUserSave(c) /\ UNCHANGED node
  \/ \E c \in Clients : \E id \in IdParams : \E body \in UpdateBodies : updateUser(c, id, body) /\ UNCHANGED node
  \/ \E c \in Clients : updateUserFindOne(c) /\ UNCHANGED node
  \/ \E c \in Clients : updateUserWrite(c) /\ UNCHANGED node
  \/ \E c \in Clients : \E id \in IdParams : deleteUser(c, id) /\ UNCHANGED node
  \/ \E c \in Clients : \E id \in IdParams : getUserById(c, id) /\ UNCHANGED node
  \/ \E c \in Clients : \E id \in Ids : FindById(c, id) /\ UNCHANGED node
  \/ \E c \in Clients : \E hobby \in HobbyArgs : addHobby(c, hobby) /\ UNCHANGED node
  \/ \E c \in Clients : \E hobby \in HobbyArgs : removeHobby(c, hobby) /\ UNCHANGED node

Spec == Init /\ [][Next]_vars

-----------------------------------------------------------------------------
(* The scoring engine on its own: updateProfileScore applied to documents
   whose name, email and age the schema admits, with 0 .. MaxHobbyCount
   hobbies *)

MaxHobbyCount == 12

Bo == <<"B","o">>

\* k different hobbies: h1 .. hk
Hobbies(k) == [i \in 1..k |-> <<"h">> \o (IF i < 10 THEN <<DigitChars[i + 1]>>
                                          ELSE <<DigitChars[(i \div 10) + 1], DigitChars[(i % 10) + 1]>>)]

ScoreDocuments ==
  { [ name |-> Str(nm), email |-> Str(em), age |-> ag, hobbies |-> hs,
      isActive |-> TRUE, profileScore |-> Int0(0) ] :
      nm \in {AnnLee, Bo}, em \in {AnnEmail, BobEmail},
      ag \in {Null, Int0(MinAge), Int0(25), Int0(MaxAge)},
      hs \in {<<Chess, Reading>>} \cup { Hobbies(k) : k \in 0..MaxHobbyCount } }

ScoreInit ==
  /\ Serving
  /\ db = [i \in {} |-> SeedUsers[i]]
  /\ req = [c \in Clients |-> NoRequest]
  /\ \E d \in ScoreDocuments :
       docs = [c \in Clients |-> IF c = "c1" THEN [NoDocument EXCEPT !.d = <<d>>]
                                             ELSE NoDocument]
  /\ started = 0

ScoreNext == \E c \in Clients : updateProfileScore(c) /\ UNCHANGED node

ScoreSpec == ScoreInit /\ [][ScoreNext]_vars

-----------------------------------------------------------------------------
(* The read handlers on collections of several users *)

\* the ages of the first users of the pool (0 - 1: no age); they lie on both
\* sides of every boundary of the age groups of getUserStats
PoolAges == <<25, 0 - 1, 17, 40, 120, 99, 0 - 1, 18, 30, 50, 100, 29, 49, 13>>

\* the two letters that tell user i from the others
Tag(i) == <<LowerChars[((i - 1) \div 26) + 1], LowerChars[((i - 1) % 26) + 1]>>

\* the i-th user of the pool; the first two are the seed users
PoolUser(i) ==
  IF i \in Ids THEN SeedUsers[i]
  ELSE LET age == IF i <= Len(PoolAges)
                    THEN (IF PoolAges[i] < 0 THEN Null ELSE Int0(PoolAges[i]))
                    ELSE Int0(MinAge + ((i * 7) % 100))
           d == [ name |-> Str(<<"U","s","e","r"," ">> \o Tag(i)),
                  email |-> Str(Tag(i) \o <<"@","e","x",".","c","o">>),
                  age |-> age,
                  hobbies |-> CASE i % 3 = 0 -> <<Chess>>
                                [] i % 3 = 1 -> <<>>
                                [] OTHER -> <<Reading, Go>>,
                  isActive |-> i % 3 # 0,
                  profileScore |-> Int0(0) ]
       IN [d EXCEPT !.profileScore = Int0(ComputeScore(d))]

\* the collection of the first n users of the pool
Collection(n) == [i \in 1..n |-> PoolUser(i)]

\* the largest collection a list request is run on
MaxListUsers == 5

\* query strings of GET /api/users
ListQueries ==
  { [NoQuery EXCEPT !.page = pg, !.limit = lm, !.order = od, !.sortBy = sb] :
      pg \in {Undefined, Str(<<"1">>), Str(<<"2">>), Str(<<"3">>), Str(<<"2",".","9">>)},
      lm \in {Undefined, Str(<<"1">>), Str(<<"2">>), Str(<<"3">>)},
      od \in {Undefined, Str(<<"a","s","c">>)},
      sb \in {Undefined, Str(<<"a","g","e">>)} }
  \cup
  { [NoQuery EXCEPT !.page = pg, !.limit = lm] :
      pg \in {Undefined, Str(<<"2">>), Str(<<"0">>), Str(<<"-","1">>),
              Str(<<"a","b","c">>), Str(<<>>)},
      lm \in {Undefined, Str(<<"2">>), Str(<<"0">>), Str(<<"-","2">>),
              Str(<<"x">>), Str(<<>>)} }
  \cup
  { [NoQuery EXCEPT !.minAge = lo, !.maxAge = hi, !.isActive = ac, !.limit = Str(<<"2">>)] :
      lo \in {Undefined, Str(<<"1","8">>), Str(<<"a","b","c">>), Str(<<"-","5">>), Str(<<"0">>)},
      hi \in {Undefined, Str(<<"3","0">>), Str(<<"o","l","d">>)},
      ac \in {Undefined, Str(<<"t","r","u","e">>), Str(<<"f","a","l","s","e">>)} }
  \cup
  { [NoQuery EXCEPT !.name = nm, !.email = em, !.hobby = hb] :
      nm \in {Undefined, Str(<<"a","n","N">>), Str(<<"(">>)},
      em \in {Undefined, Str(<<"B","O","B","@","e","x",".","c","o">>)},
      hb \in {Undefined, Str(PaddedChess)} }

\* one request on a collection that does not change
ListInit ==
  /\ Serving
  /\ db \in { Collection(n) : n \in 0..MaxListUsers }
  /\ req = [c \in Clients |-> NoRequest]
  /\ docs = [c \in Clients |-> NoDocument]
  /\ started = MaxRequests - 1

ListNext ==
  \E c \in Clients : \E query \in ListQueries : \E lenient \in BOOLEAN :
    getAllUsers(c, query, lenient) /\ UNCHANGED node

ListSpec == ListInit /\ [][ListNext]_vars

\* the largest collection a search request is run on: more than SearchLimit
\* users match in it
MaxSearchUsers == 60

\* query strings of GET /api/users/search
SearchQueries ==
  { [NoQuery EXCEPT !.q = q, !.field = field] :
      q \in { Undefined, Str(<<>>), Str(Chess), Str(<<"C","H","E","S","S">>),
              Str(<<"U","s","e","r">>), Str(<<"a","n","N">>),
              Str(<<"@","e","x",".","c","o">>), Str(<<"z","z">>),
              Str(<<".">>), Str(<<"(">>) },
      field \in { Undefined, Str(FieldName), Str(FieldEmail), Str(FieldHobby),
                  Str(FieldAll), Str(<<"N","a","m","e">>), Str(<<"a","g","e">>),
                  Str(<<>>) } }

SearchInit ==
  /\ Serving
  /\ db \in { Collection(n) : n \in {0, 3, SearchLimit + 2, SearchLimit + 3, MaxSearchUsers} }
  /\ req = [c \in Clients |-> NoRequest]
  /\ docs = [c \in Clients |-> NoDocument]
  /\ started = MaxRequests - 1

SearchNext ==
  \E c \in Clients : \E query \in SearchQueries :
    searchUsers(c, query) /\ UNCHANGED node

SearchSpec == SearchInit /\ [][SearchNext]_vars

\* the largest collection a stats request is run on
MaxStatsUsers == 14

\* a collection whose users have no age and no hobby
Bare(coll) ==
  [ i \in DOMAIN coll |->
      LET d == [coll[i] EXCEPT !.age = Null, !.hobbies = <<>>]
      IN [d EXCEPT !.profileScore = Int0(ComputeScore(d))] ]

\* a collection whose users have their first two hobbies only
Few(coll) ==
  [ i \in DOMAIN coll |->
      LET d == [coll[i] EXCEPT !.hobbies = Take(@, 2)]
      IN [d EXCEPT !.profileScore = Int0(ComputeScore(d))] ]

StatsInit ==
  /\ Serving
  /\ db \in { Few(Collection(n)) : n \in 0..MaxStatsUsers }
            \cup { Bare(Collection(n)) : n \in 1..3 }
  /\ req = [c \in Clients |-> NoRequest]
  /\ docs = [c \in Clients |-> NoDocument]
  /\ started = MaxRequests - 1

StatsNext ==
  \E c \in Clients : \E popular \in PopularHobbies(db) :
    getUserStats(c, popular) /\ UNCHANGED node

StatsSpec == StatsInit /\ [][StatsNext]_vars

\* a collection of n users in which hobby TenHobbies[k] (k below MaxHobbies)
\* is held by the users 1..k, and the last hobby of TenHobbies and Chess by
\* user MaxHobbies alone: with all its users it has eleven hobbies, three of
\* them with count 1
Ladder(n) ==
  [ i \in 1..n |->
      LET d == [ PoolUser(i + 2) EXCEPT
                   !.hobbies = IF i < MaxHobbies
                                 THEN SubSeq(TenHobbies, i, MaxHobbies - 1)
                                 ELSE <<TenHobbies[MaxHobbies], Chess>> ]
      IN [d EXCEPT !.profileScore = Int0(ComputeScore(d))] ]

\* stats requests, one after the other, on a collection that does not change
PopularInit ==
  /\ Serving
  /\ db \in { Ladder(MaxHobbies), Ladder(MaxHobbies - 1),
               Few(Collection(3)), Collection(1) }
  /\ req = [c \in Clients |-> NoRequest]
  /\ docs = [c \in Clients |-> NoDocument]
  /\ started = 0

PopularNext == StatsNext

PopularSpec == PopularInit /\ [][PopularNext]_vars

-----------------------------------------------------------------------------
(* The process: config/database.js and the start and shutdown of server.js.
   A timer fires at any time after it was set. *)

\* the connection is lost only while the reconnects it sets off, with the
\* timers and connect() calls still under way, are at most this many
MaxReconnects == 2

\* the most termination signals the process gets
MaxSignals == 2

Running == exitCode = <<>>

\* the module is loaded, startServer has not run
Loaded ==
  /\ database = NewDatabase
  /\ mongoose = "disconnected"
  /\ listeners = 0
  /\ server = "none"
  /\ exitCode = <<>>
  /\ pending = Idle

\* `this.retryCount < this.maxRetries` with <= for <
ShouldRetryInclusive(retryCount) == retryCount <= maxRetries

\* connect's test for another attempt
ShouldRetry(retryCount) == retryCount < maxRetries

\* connect() up to its await of mongoose.connect
connect(p) == [p EXCEPT !.attempts = @ + 1]

\* the 'disconnected' listeners of setupEventListeners, once per registration:
\* isConnected false, a 5 s timer
Disconnected(d) == IF listeners > 0 THEN [d EXCEPT !.isConnected = FALSE] ELSE d

SetReconnectTimers(p) == [p EXCEPT !.reconnects = @ + listeners]

\* startServer up to its await of database.connect()
startServer ==
  /\ Running
  /\ server = "none"
  /\ server' = "starting"
  /\ pending' = connect(pending)
  /\ UNCHANGED <<database, mongoose, listeners, exitCode>>

\* mongoose.connect resolves: the rest of connect's try block with
\* setupEventListeners; if startServer awaits it, startServer goes on to
\* app.listen and registers gracefulShutdown
connectResolved ==
  /\ Running
  /\ pending.attempts > 0
  /\ mongoose' = "connected"
  /\ database' = Connected
  /\ listeners' = listeners + 1
  /\ pending' = [pending EXCEPT !.attempts = @ - 1]
  /\ server' = IF server = "starting" THEN "listening" ELSE server
  /\ UNCHANGED exitCode

\* mongoose.connect rejects (or MONGODB_URI is not set): connect's catch block
connectRejected ==
  /\ Running
  /\ pending.attempts > 0
  /\ database' = [database EXCEPT !.retryCount = @ + 1]
  /\ IF ShouldRetry(database'.retryCount)
       THEN /\ pending' = [pending EXCEPT !.attempts = @ - 1, !.retries = @ + 1]
            /\ UNCHANGED exitCode
       ELSE /\ pending' = [pending EXCEPT !.attempts = @ - 1]
            /\ exitCode' = <<1>>
  /\ UNCHANGED <<mongoose, listeners, server>>

\* the 2 s wait of connect's catch block is over: `return this.connect()`
retry ==
  /\ Running
  /\ pending.retries > 0
  /\ pending' = connect([pending EXCEPT !.retries = @ - 1])
  /\ UNCHANGED <<database, mongoose, listeners, server, exitCode>>

\* the connection is lost: 'disconnected' is emitted
onDisconnected ==
  /\ Running
  /\ mongoose = "connected"
  /\ listeners > 0
  /\ pending.reconnects + pending.attempts + pending.retries + listeners <= MaxReconnects
  /\ mongoose' = "disconnected"
  /\ database' = Disconnected(database)
  /\ pending' = SetReconnectTimers(pending)
  /\ UNCHANGED <<listeners, server, exitCode>>

\* the driver has the connection again: 'connected' is emitted
onConnected ==
  /\ Running
  /\ mongoose = "disconnected"
  /\ listeners > 0
  /\ mongoose' = "connected"
  /\ database' = [database EXCEPT !.isConnected = TRUE]
  /\ UNCHANGED <<listeners, server, exitCode, pending>>

\* 'error' is emitted
onError ==
  /\ Running
  /\ listeners > 0
  /\ database' = [database EXCEPT !.isConnected = FALSE]
  /\ UNCHANGED <<mongoose, listeners, server, exitCode, pending>>

\* the 5 s timer of a 'disconnected' listener fires
reconnect ==
  /\ Running
  /\ pending.reconnects > 0
  /\ pending' = IF ~database.isConnected
                  THEN connect([pending EXCEPT !.reconnects = @ - 1])
                  ELSE [pending EXCEPT !.reconnects = @ - 1]
  /\ UNCHANGED <<database, mongoose, listeners, server, exitCode>>

\* gracefulShutdown: server.close and the 10 s timer
gracefulShutdown(p) == [p EXCEPT !.force = @ + 1]

\* the listeners of SIGINT: those of setupEventListeners, each of which
\* awaits this.connection.close(), and gracefulShutdown
SIGINT ==
  /\ Running
  /\ server \in {"listening", "closing", "closed"}
  /\ pending.force < MaxSignals
  /\ server' = IF server = "listening" THEN "closing" ELSE server
  /\ pending' = gracefulShutdown([pending EXCEPT !.closes = @ + listeners])
  /\ mongoose' = "disconnecting"
  /\ UNCHANGED <<database, listeners, exitCode>>

\* the listener of SIGTERM: gracefulShutdown
SIGTERM ==
  /\ Running
  /\ server \in {"listening", "closing", "closed"}
  /\ pending.force < MaxSignals
  /\ server' = IF server = "listening" THEN "closing" ELSE server
  /\ pending' = gracefulShutdown(pending)
  /\ UNCHANGED <<database, mongoose, listeners, exitCode>>

\* this.connection.close() of a SIGINT listener of setupEventListeners is
\* done ('disconnected' is emitted): process.exit(0)
connectionClosed ==
  /\ Running
  /\ pending.closes > 0
  /\ mongoose' = "disconnected"
  /\ database' = Disconnected(database)
  /\ pending' = SetReconnectTimers([pending EXCEPT !.closes = @ - 1])
  /\ exitCode' = <<0>>
  /\ UNCHANGED <<listeners, server>>

\* the HTTP server has closed: the callback of server.close up to the await
\* in database.disconnect(), or to process.exit(0) if disconnect has nothing
\* to close
serverClosed ==
  /\ Running
  /\ server = "closing"
  /\ server' = "closed"
  /\ IF database.isConnected /\ database.connection # "null"
       THEN /\ pending' = [pending EXCEPT !.shutdown = "disconnect"]
            /\ mongoose' = "disconnecting"
            /\ UNCHANGED exitCode
       ELSE /\ exitCode' = <<0>>
            /\ UNCHANGED <<pending, mongoose>>
  /\ UNCHANGED <<database, listeners>>

\* mongoose.disconnect() of database.disconnect() is done ('disconnected' is
\* emitted) or has failed (the error is logged): process.exit(0)
disconnectSettled(done) ==
  /\ Running
  /\ pending.shutdown = "disconnect"
  /\ IF done
       THEN /\ mongoose' = "disconnected"
            /\ database' = Disconnected(database)
            /\ pending' = SetReconnectTimers([pending EXCEPT !.shutdown = "none"])
       ELSE /\ pending' = [pending EXCEPT !.shutdown = "none"]
            /\ UNCHANGED <<mongoose, database>>
  /\ exitCode' = <<0>>
  /\ UNCHANGED <<listeners, server>>

\* the 10 s timer of gracefulShutdown fires: process.exit(1)
forceShutdown ==
  /\ Running
  /\ pending.force > 0
  /\ pending' = [pending EXCEPT !.force = @ - 1]
  /\ exitCode' = <<1>>
  /\ UNCHANGED <<database, mongoose, listeners, server>>

ServerInit ==
  /\ Loaded
  /\ db = [i \in {} |-> SeedUsers[i]]
  /\ req = [c \in Clients |-> NoRequest]
  /\ docs = [c \in Clients |-> NoDocument]
  /\ started = 0

ServerNext ==
  \/ startServer /\ UNCHANGED api
  \/ connectResolved /\ UNCHANGED api
  \/ connectRejected /\ UNCHANGED api
  \/ retry /\ UNCHANGED api
  \/ onDisconnected /\ UNCHANGED api
  \/ onConnected /\ UNCHANGED api
  \/ onError /\ UNCHANGED api
  \/ reconnect /\ UNCHANGED api
  \/ SIGINT /\ UNCHANGED api
  \/ SIGTERM /\ UNCHANGED api
  \/ connectionClosed /\ UNCHANGED api
  \/ serverClosed /\ UNCHANGED api
  \/ (\E done \in BOOLEAN : disconnectSettled(done)) /\ UNCHANGED api
  \/ forceShutdown /\ UNCHANGED api

ServerSpec == ServerInit /\ [][ServerNext]_vars

-----------------------------------------------------------------------------
(* Properties *)

Done(c, op) == req[c].op = op /\ req[c].pc = "done"

\* a request of client c gets its response in this step
Answers(c) == req[c].pc \notin {"idle", "done"} /\ req'[c].pc = "done"

\* an email as uniqueness compares it: trimmed, case ignored
Normal(email) == ToLowerCase(Trim(email))

EmailsUnique ==
  \A i \in DOMAIN db : \A j \in DOMAIN db :
    i # j => Normal(db[i].email.s) # Normal(db[j].email.s)

\* the write client c has in flight would store an email another stored User has
WouldDuplicate(c) ==
  /\ req[c].op \in {"create", "update"}
  /\ Truthy(req[c].body.email)
  /\ \E i \in DOMAIN db :
       /\ i # req[c].id
       /\ Normal(db[i].email.s) = Normal(req[c].body.email.s)

DuplicateWriteFails ==
  \A c \in Clients :
    Answers(c) /\ WouldDuplicate(c) =>
      /\ req'[c].status \notin {200, 201}
      /\ db' = db

\* C1: no two stored Users have the same email, compared trimmed and without
\* case; a create or update that would store an email another User has gets
\* no success response and leaves the collection as it was
C1_EmailUniqueness == []EmailsUnique /\ [][DuplicateWriteFails]_vars

\* two updates giving two different Users the same new email have both been
\* answered: one stored it, the other got 409
C1_Witness ==
  /\ Done("c1", "update") /\ Done("c2", "update")
  /\ req["c1"].id # req["c2"].id
  /\ req["c1"].body.email = Str(CyEmail) /\ req["c2"].body.email = Str(CyEmail)
  /\ {req["c1"].status, req["c2"].status} = {200, 409}

\* C2: after a successful create or update the stored profileScore of the
\* written User is the score of its stored name, email, age and hobbies, and
\* a fetch by id returns a record whose profileScore is the score of the
\* fields it returns
C2_ScoreNeverStale ==
  /\ \A c \in Clients :
       /\ req[c].op \in {"create", "update"}
       /\ req[c].pc = "done"
       /\ req[c].status \in {200, 201}
       /\ ~Has(req[c].body.profileScore)
       => req[c].data[1].profileScore = Int0(ComputeScore(req[c].data[1]))
  /\ \A c \in Clients :
       Done(c, "get") /\ req[c].status = 200 =>
         req[c].data[1].profileScore = Int0(ComputeScore(req[c].data[1]))

\* the create requests of c and d carry the same email and no field that
\* validation refuses
SameEmailCreates(c, d) ==
  /\ c # d
  /\ Done(c, "create") /\ Done(d, "create")
  /\ req[c].status # 400 /\ req[d].status # 400
  /\ Normal(req[c].body.email.s) = Normal(req[d].body.email.s)

\* C3: of two create requests with the same email at most one ends with a
\* success response, and each of the others ends with 409, never with a
\* server error
C3_ConcurrentCreates ==
  \A c \in Clients : \A d \in Clients :
    SameEmailCreates(c, d) =>
      /\ ~(req[c].status = 201 /\ req[d].status = 201)
      /\ req[c].status \in {201, 409}
      /\ req[d].status \in {201, 409}

\* an update whose hobbies would be more than 10
UpdatePastTen(c) ==
  /\ Done(c, "update")
  /\ req[c].body.hobbies.t = "array"
  /\ Len(req[c].body.hobbies.a) > 10

NameAsSpecified(v) ==
  /\ v.t = "string"
  /\ Len(v.s) >= 2 /\ Len(v.s) <= 100
  /\ \A i \in DOMAIN v.s : IsLetter(v.s[i]) \/ v.s[i] \in {" ", "-", "'"}

EmailAsSpecified(v) ==
  /\ v.t = "string"
  /\ v.s = Normal(v.s)
  /\ Cardinality({ i \in DOMAIN v.s : v.s[i] = "@" }) = 1
  /\ \E at \in DOMAIN v.s : \E dot \in DOMAIN v.s :
       /\ v.s[at] = "@" /\ v.s[dot] = "." /\ 1 < at /\ at + 1 < dot
       /\ dot + 2 <= Len(v.s)
       /\ \A i \in (dot + 1)..Len(v.s) : IsLetter(v.s[i])
       /\ SubSeq(v.s, at + 1, Len(v.s)) \notin {TempmailCom, ThrowawayCom}

AgeAsSpecified(v) ==
  \/ v.t = "null"
  \/ v.t = "number" /\ v.f = 0 /\ v.n >= 13 /\ v.n <= 120

HobbiesAsSpecified(hs) == \A i \in DOMAIN hs : Len(hs[i]) >= 2 /\ Len(hs[i]) <= 50

StoredUsersValid ==
  \A i \in DOMAIN db :
    /\ NameAsSpecified(db[i].name)
    /\ EmailAsSpecified(db[i].email)
    /\ AgeAsSpecified(db[i].age)
    /\ HobbiesAsSpecified(db[i].hobbies)

RejectedWriteKeepsDb ==
  \A c \in Clients : Answers(c) /\ req'[c].status = 400 => db' = db

C6_ScoreNotCallerSupplied ==
  \A c \in Clients :
    /\ req[c].op \in {"create", "update"}
    /\ req[c].pc = "done"
    /\ req[c].status \in {200, 201}
    /\ Has(req[c].body.profileScore)
    /\ req[c].data[1].profileScore = req[c].body.profileScore
    => req[c].body.profileScore = Int0(ComputeScore(req[c].data[1]))

Scored(c) == docs[c].call = "updateProfileScore"

Present(v) == v.t \notin {"undefined", "null"}

Min(x, y) == IF x < y THEN x ELSE y

\* the score as the scoring contract states it
ScoreAsSpecified(d) ==
  (IF Present(d.name) /\ Len(d.name.s) >= 2 THEN 20 ELSE 0)
  + (IF Present(d.email) THEN 30 ELSE 0)
  + (IF d.age.t # "null" THEN 20 ELSE 0)
  + Min(3 * Len(d.hobbies), 30)

\* C7: the score updateProfileScore assigns is 20 for a name of at least 2
\* characters, plus 30 for an email, plus 20 for a non-null age, plus
\* min(3 x number of hobbies, 30), and is an integer in 0..100
C7_ScoreFormula ==
  \A c \in Clients :
    Scored(c) =>
      LET d == docs[c].d[1]
      IN /\ d.profileScore = Int0(ScoreAsSpecified(d))
         /\ d.profileScore.n \in 0..100

\* 'Ann Lee' with an email, age 25 and 2 hobbies has been scored 76
C7_Witness ==
  \E c \in Clients :
    /\ Scored(c)
    /\ docs[c].d[1].name = Str(AnnLee)
    /\ docs[c].d[1].age = Int0(25)
    /\ docs[c].d[1].hobbies = <<Chess, Reading>>
    /\ docs[c].d[1].profileScore = Int0(76)

\* the document with one more hobby
OneMoreHobby(d) == [d EXCEPT !.hobbies = Append(d.hobbies, Go)]

\* C8: with name, email and age fixed, one more hobby never lowers the score,
\* and from 10 hobbies on it leaves the score as it is
C8_ScoreMonotoneInHobbies ==
  \A c \in Clients :
    Scored(c) =>
      LET d == docs[c].d[1]
      IN /\ ComputeScore(OneMoreHobby(d)) >= d.profileScore.n
         /\ (Len(d.hobbies) >= 10 => ComputeScore(OneMoreHobby(d)) = d.profileScore.n)
         /\ (Len(d.hobbies) < 10 => ComputeScore(OneMoreHobby(d)) = d.profileScore.n + 3)

\* a document with 11 hobbies has been scored like one with 10
C8_Witness ==
  \E c \in Clients :
    /\ Scored(c)
    /\ Len(docs[c].d[1].hobbies) = 11
    /\ docs[c].d[1].profileScore =
         Int0(ComputeScore([docs[c].d[1] EXCEPT !.hobbies = SubSeq(docs[c].d[1].hobbies, 1, 10)]))

NoDuplicates(hs) == \A i \in DOMAIN hs : \A j \in DOMAIN hs : hs[i] = hs[j] => i = j

\* C9: addHobby with a hobby that, trimmed as storage trims it, is already
\* present leaves the hobbies as they were, and addHobby on hobbies without
\* duplicates leaves them without duplicates
C9_AddHobbyIdempotent ==
  \A c \in Clients :
    docs[c].call = "addHobby" =>
      /\ (\E i \in DOMAIN docs[c].before : docs[c].before[i] = Trim(docs[c].arg))
           => docs[c].d[1].hobbies = docs[c].before
      /\ NoDuplicates(docs[c].before) => NoDuplicates(docs[c].d[1].hobbies)

\* the age of a create request is a number outside 13-120
AgeOutOfRange(v) ==
  \/ v.t = "number" /\ (v.n < 13 \/ v.n > 120 \/ (v.n = 120 /\ v.f > 0))
  \/ v.t = "string" /\ parseInt(v).t = "number" /\ (parseInt(v).n < 13 \/ parseInt(v).n > 120)

\* C10: a create request whose age is outside 13-120, age 0 included, and
\* that is otherwise accepted, is answered 400 with an error on age and no
\* User document with a null age is built from it
C10_AgeZeroRejected ==
  \A c \in Clients :
    /\ Done(c, "create")
    /\ AgeOutOfRange(req[c].body.age)
    /\ Truthy(req[c].body.name) /\ Truthy(req[c].body.email)
    /\ req[c].status # 409
    => /\ req[c].status = 400
       /\ "age" \in req[c].errors
       /\ docs[c].d[1].age.t # "null"

-----------------------------------------------------------------------------
(* Identifiers, hard delete and update conflicts *)

\* the request of client c gets its response in this step
Answered(c) == req'[c] # req[c] /\ req'[c].pc = "done"

ById(c) == req[c].op \in {"get", "update", "delete"}

\* exactly 24 characters, each a digit or a letter a to f in either case
TwentyFourHex(s) ==
  /\ Len(s) = 24
  /\ \A i \in 1..Len(s) : IsDigit(s[i]) \/ LowerOf(s[i]) \in {"a","b","c","d","e","f"}

MalformedIdRejected ==
  \A c \in Clients :
    ById(c) /\ ~TwentyFourHex(req[c].param)
      => req[c].pc = "done" /\ req[c].status = 400 /\ req[c].calls = 0

MalformedIdKeepsDb ==
  \A c \in Clients :
    Answered(c) /\ ById(c)' /\ ~TwentyFourHex(req'[c].param) => db' = db

\* C15: a get, update or delete whose id is not exactly 24 hexadecimal
\* characters is answered 400 before any Model call is issued, and the
\* collection is unchanged
C15_MalformedIdRejected == []MalformedIdRejected /\ [][MalformedIdKeepsDb]_vars

\* an update and a delete with malformed ids were both answered, and a get
\* with a well-formed id reached storage
C15_Witness ==
  /\ Done("c1", "update") /\ req["c1"].param = ShortId /\ req["c1"].status = 400
  /\ Done("c2", "delete") /\ req["c2"].param = NotHexId /\ req["c2"].status = 400
  /\ DOMAIN db = Ids

\* the request client c is answered to in this step named no stored User
AnsweredMissing(c, ops) ==
  /\ Answered(c)
  /\ req'[c].op \in ops
  /\ TwentyFourHex(req'[c].param)
  /\ req'[c].id \notin DOMAIN db

\* a successful delete removes the record
DeleteRemoves ==
  \A c \in Clients :
    Answered(c) /\ req'[c].op = "delete" /\ req'[c].status = 200
      => req'[c].id \in DOMAIN db /\ req'[c].id \notin DOMAIN db'

\* a record comes into being only by a successful create
OnlyCreateInserts ==
  \A i \in DOMAIN db' \ DOMAIN db :
    \E c \in Clients : Answered(c) /\ req'[c].op = "create" /\ req'[c].status = 201

EmailHeldByOther(c) ==
  /\ Truthy(req[c].body.email)
  /\ \E i \in DOMAIN db :
       i # req[c].id /\ Normal(db[i].email.s) = Normal(req[c].body.email.s)

UpdateAt(c, pc) == req[c].op = "update" /\ req[c].pc = pc

-----------------------------------------------------------------------------
(* The list operation *)

\* the decimal numeral of n, 0 <= n <= 99
Numeral(n) ==
  IF n < 10 THEN <<DigitChars[n + 1]>>
  ELSE <<DigitChars[(n \div 10) + 1], DigitChars[(n % 10) + 1]>>

\* the number a page or limit parameter stands for, when it is absent (the
\* default) or a plain numeral
Requested(param, default) ==
  IF param.t = "undefined" THEN default
  ELSE IF \E n \in 0..99 : param.s = Numeral(n)
    THEN CHOOSE n \in 0..99 : param.s = Numeral(n)
    ELSE 0 - 1

\* the stored Users the filter of the request selects
Selected(c) == { i \in DOMAIN db : Matches(db[i], ListFilter(req[c].query)) }

\* the stored User a returned record is
IdOf(d) == CHOOSE i \in DOMAIN db : db[i] = d

\* the selected Users that come before User i in the requested order
Preceding(c, i) ==
  LET ascending == req[c].query.order.t # "undefined" /\ req[c].query.order # Str(Desc)
      byAge == req[c].query.sortBy = Str(<<"a","g","e">>)
      key(j) == IF byAge THEN (IF db[j].age.t = "number" THEN db[j].age.n ELSE 0 - 1) ELSE j
  IN { j \in Selected(c) : IF ascending THEN key(j) < key(i) ELSE key(j) > key(i) }

\* the list request of client c was answered with a page
Listed(c) ==
  /\ Done(c, "list")
  /\ req[c].status = 200
  /\ Requested(req[c].query.page, 1) >= 1
  /\ Requested(req[c].query.limit, 10) >= 1

\* C11: for a list request with page >= 1 and limit >= 1, totalPages is
\* ceil(totalUsers / pageSize), hasNextPage is currentPage < totalPages,
\* hasPreviousPage is currentPage > 1, and the page holds at most pageSize
\* records: those from position (page - 1) * pageSize on of the sorted matches
C11_Pagination ==
  \A c \in Clients :
    Listed(c) =>
      LET meta == req[c].pagination
          page == Requested(req[c].query.page, 1)
          size == Requested(req[c].query.limit, 10)
          total == Cardinality(Selected(c))
          users == req[c].data
          rest == IF total > (page - 1) * size THEN total - (page - 1) * size ELSE 0
      IN /\ meta.currentPage = Int0(page)
         /\ meta.pageSize = Int0(size)
         /\ meta.totalUsers = total
         /\ meta.totalPages.t = "number"
         /\ meta.totalPages.n * size >= total
         /\ (meta.totalPages.n - 1) * size < total \/ (total = 0 /\ meta.totalPages.n = 0)
         /\ meta.hasNextPage <=> page < meta.totalPages.n
         /\ meta.hasPreviousPage <=> page > 1
         /\ Len(users) <= size
         /\ Len(users) = (IF rest < size THEN rest ELSE size)
         /\ \A k \in DOMAIN users :
              /\ IdOf(users[k]) \in Selected(c)
              /\ Cardinality(Preceding(c, IdOf(users[k]))) = (page - 1) * size + k - 1

\* page 2 of size 2 of five users sorted by age, ascending: the third and
\* the fourth of them, with a page before and a page after
C11_Witness ==
  \E c \in Clients :
    /\ Listed(c)
    /\ req[c].query.page = Str(<<"2">>)
    /\ req[c].query.limit = Str(<<"2">>)
    /\ req[c].query.sortBy = Str(<<"a","g","e">>)
    /\ req[c].query.order = Str(<<"a","s","c">>)
    /\ req[c].pagination.totalUsers = 5
    /\ req[c].pagination.totalPages = Int0(3)
    /\ req[c].pagination.hasNextPage
    /\ req[c].pagination.hasPreviousPage
    /\ req[c].data = <<PoolUser(1), PoolUser(4)>>

\* a decimal number: an optional sign, digits, an optional fraction
NumericString(s) ==
  LET digits == IF s # <<>> /\ s[1] = "-" THEN Tail(s) ELSE s
  IN /\ digits # <<>>
     /\ IsDigit(digits[1])
     /\ \A i \in DOMAIN digits : IsDigit(digits[i]) \/ digits[i] = "."
     /\ Cardinality({ i \in DOMAIN digits : digits[i] = "." }) <= 1

\* a numeric string whose value is below 1
BelowOne(s) ==
  \/ s[1] = "-"
  \/ \A i \in DOMAIN s : (\A j \in 1..i : s[j] # ".") => s[i] = "0"

\* page, limit, minAge or maxAge is given and not numeric, or page or limit
\* is below 1
BadListParams(query) ==
  \/ \E v \in {query.page, query.limit, query.minAge, query.maxAge} :
       v.t = "string" /\ ~NumericString(v.s)
  \/ \E v \in {query.page, query.limit} :
       v.t = "string" /\ NumericString(v.s) /\ BelowOne(v.s)

\* C12: a list request whose page, limit, minAge or maxAge is not numeric, or
\* whose page or limit is below 1, is answered with a client error and never
\* reaches storage
C12_BadListParamsRejected ==
  \A c \in Clients :
    Done(c, "list") /\ BadListParams(req[c].query)
      => req[c].status = 400 /\ req[c].calls = 0

-----------------------------------------------------------------------------
(* The search operation *)

\* the fields a search may name
SearchableFields == { <<"n","a","m","e">>, <<"e","m","a","i","l">>,
                      <<"h","o","b","b","y">>, <<"a","l","l">> }

\* q is absent or empty, or field is given and not a searchable field
MustReject(query) ==
  \/ query.q.t = "undefined"
  \/ query.q.s = <<>>
  \/ query.field.t # "undefined" /\ query.field.s \notin SearchableFields

\* C13: a search is answered 400, without a Model call, exactly when q is
\* absent or empty or field is not one of name, email, hobby, all; every
\* other search is executed and answered with success
C13_SearchRejection ==
  \A c \in Clients :
    Done(c, "search") =>
      IF MustReject(req[c].query)
        THEN req[c].status = 400 /\ req[c].calls = 0
        ELSE req[c].status = 200 /\ req[c].calls = 1

\* string s contains string q, case ignored
Contains(s, q) ==
  \E k \in 0..(Len(s) - Len(q)) :
    \A i \in 1..Len(q) : LowerOf(s[k + i]) = LowerOf(q[i])

\* User d matches q in the selected field: a case-insensitive substring of
\* its name, its email or one of its hobbies
Found(d, q, field) ==
  LET name == Contains(d.name.s, q)
      email == Contains(d.email.s, q)
      hobby == \E i \in DOMAIN d.hobbies : Contains(d.hobbies[i], q)
  IN IF field.t = "undefined" \/ field.s = <<"a","l","l">>
       THEN name \/ email \/ hobby
       ELSE IF field.s = <<"n","a","m","e">> THEN name
       ELSE IF field.s = <<"e","m","a","i","l">> THEN email
       ELSE hobby

\* C14: an accepted search returns min(50, number of matching Users) records,
\* and every returned record matches q in the selected field
C14_SearchResults ==
  \A c \in Clients :
    Done(c, "search") /\ req[c].status = 200 =>
      LET q == req[c].query.q.s
          field == req[c].query.field
          matching == Cardinality({ i \in DOMAIN db : Found(db[i], q, field) })
      IN /\ Len(req[c].data) = (IF matching < 50 THEN matching ELSE 50)
         /\ \A k \in DOMAIN req[c].data : Found(req[c].data[k], q, field)

-----------------------------------------------------------------------------
(* The stats operation *)

Stats(c) == req[c].stats

\* C18: the stats bundle reports users = number of stored Users, active =
\* number of Users with isActive true, inactive = users - active; the three
\* are non-negative and active + inactive = users
C18_StatsTotals ==
  \A c \in Clients :
    Done(c, "stats") =>
      /\ req[c].status = 200
      /\ Stats(c).users = Cardinality(DOMAIN db)
      /\ Stats(c).active = Cardinality({ i \in DOMAIN db : db[i].isActive })
      /\ Stats(c).inactive = Cardinality({ i \in DOMAIN db : ~db[i].isActive })
      /\ Stats(c).active + Stats(c).inactive = Stats(c).users
      /\ Stats(c).users >= 0 /\ Stats(c).active >= 0 /\ Stats(c).inactive >= 0

\* stats of the fourteen users of the pool: ten active, four inactive
C18_Witness ==
  \E c \in Clients :
    /\ Done(c, "stats")
    /\ Stats(c).users = 14
    /\ Stats(c).active = 10
    /\ Stats(c).inactive = 4

NoUserHasAge == \A i \in DOMAIN db : db[i].age.t = "null"

NoUserHasHobby == \A i \in DOMAIN db : db[i].hobbies = <<>>

GroupOfAge(n) ==
  IF n < 18 THEN Int0(0)
  ELSE IF n < 30 THEN Int0(18)
  ELSE IF n < 50 THEN Int0(30)
  ELSE IF n < 100 THEN Int0(50)
  ELSE Str(<<"O","t","h","e","r">>)

\* the groups of the histogram that list User i as a (name, age) pair
GroupsListing(c, i) ==
  { k \in DOMAIN Stats(c).groups :
      \E m \in DOMAIN Stats(c).groups[k].users :
        Stats(c).groups[k].users[m] = [name |-> db[i].name, age |-> db[i].age] }

\* C20: every stored User with an age is listed in exactly one age group, the
\* one of its age; a User without age is listed in none; the count of a
\* group is the length of its member list
C20_AgeHistogram ==
  \A c \in Clients :
    Done(c, "stats") =>
      /\ \A i \in DOMAIN db :
           IF db[i].age.t = "null"
             THEN GroupsListing(c, i) = {}
             ELSE /\ Cardinality(GroupsListing(c, i)) = 1
                  /\ \A k \in GroupsListing(c, i) :
                       Stats(c).groups[k].id = GroupOfAge(db[i].age.n)
      /\ \A k \in DOMAIN Stats(c).groups :
           /\ Stats(c).groups[k].count = Len(Stats(c).groups[k].users)
           /\ Stats(c).groups[k].count > 0
           /\ \A j \in DOMAIN Stats(c).groups : j # k => Stats(c).groups[j].id # Stats(c).groups[k].id

\* stats of the fourteen users of the pool: all five groups, ages 17 and 18
\* apart, 99 and 100 apart
C20_Witness ==
  \E c \in Clients :
    /\ Done(c, "stats")
    /\ Cardinality(DOMAIN db) = 14
    /\ Len(Stats(c).groups) = 5
    /\ Stats(c).groups[1].id = Int0(0) /\ Stats(c).groups[1].count = 2
    /\ Stats(c).groups[2].id = Int0(18) /\ Stats(c).groups[2].count = 3
    /\ Stats(c).groups[4].id = Int0(50) /\ Stats(c).groups[4].count = 2
    /\ Stats(c).groups[5].id = Str(<<"O","t","h","e","r">>) /\ Stats(c).groups[5].count = 2

-----------------------------------------------------------------------------
(* The popular hobbies of the stats operation *)

\* the number of positions of the hobby in the $unwind of the collection
Occurrences(h) ==
  Cardinality({ p \in (DOMAIN db) \X (1..MaxHobbies) :
                  p[2] \in DOMAIN db[p[1]].hobbies /\ db[p[1]].hobbies[p[2]] = h })

\* the popular hobbies list has at most 10 entries, each a hobby of the
\* collection with its occurrence count, no hobby twice, in descending
\* order of count, and no hobby left out occurs more often than a listed one
PopularTopTen ==
  \A c \in Clients :
    Done(c, "stats") =>
      LET top == Stats(c).popular
      IN /\ Len(top) <= 10
         /\ \A k \in DOMAIN top :
              /\ top[k].count = Occurrences(top[k].id)
              /\ top[k].count > 0
              /\ \A j \in DOMAIN top :
                   /\ j < k => top[j].count >= top[k].count
                   /\ j # k => top[j].id # top[k].id
         /\ \A i \in DOMAIN db : \A m \in DOMAIN db[i].hobbies :
              (\A k \in DOMAIN top : top[k].id # db[i].hobbies[m]) =>
                /\ Len(top) = 10
                /\ \A k \in DOMAIN top : top[k].count >= Occurrences(db[i].hobbies[m])

\* C21: the popular hobbies list has at most 10 entries, in descending order
\* of count, and is deterministic: two stats responses on the same collection
\* content carry the same hobbies in the same order, also among hobbies of
\* equal count and at the cut after the 10th
C21_PopularDeterministic ==
  /\ PopularTopTen
  /\ \A c1 \in Clients : \A c2 \in Clients :
       Done(c1, "stats") /\ Done(c2, "stats") => Stats(c1).popular = Stats(c2).popular

-----------------------------------------------------------------------------
(* The save of a create request *)

\* the create request of client c has called newUser.save() on a document
\* that passes validation and whose email no stored User has
SavesValidUser(c) ==
  /\ req[c].op = "create"
  /\ req[c].pc = "save"
  /\ ValidateDoc(docs[c].d[1]) = {}
  /\ \A i \in DOMAIN db : Normal(db[i].email.s) # Normal(docs[c].d[1].email.s)

\* C22: the save of a create request with valid, non-conflicting input ends
\* in one step of the handler, with a success response (201) and exactly one
\* record persisted: the save() that updateProfileScore calls from the
\* pre-save hook neither re-enters the save path again nor fails the write
C22_CreateSucceeds ==
  [][ \A c \in Clients :
        SavesValidUser(c) /\ req'[c] # req[c] =>
          /\ req'[c].pc = "done"
          /\ req'[c].status = 201
          /\ Cardinality(DOMAIN db') = Cardinality(DOMAIN db) + 1
          /\ Cardinality({ i \in DOMAIN db' :
                             Normal(db'[i].email.s) = Normal(docs[c].d[1].email.s) }) = 1
    ]_vars

-----------------------------------------------------------------------------
(* The database connection and the shutdown *)

C24_OneReconnectPerDisconnect ==
  [][ /\ pending'.reconnects <= pending.reconnects + 1
      /\ (server # "none" /\ pending'.attempts > pending.attempts) => ~database.isConnected
    ]_vars

\* C25: after SIGTERM or SIGINT the closing of the database connection starts
\* only once the HTTP server has closed, the process exits with code 0 only
\* once the HTTP server has closed and database.disconnect() is no longer
\* awaited, and the 10 s timer exits with code 1
C25_OrderedShutdown ==
  [][ /\ (mongoose # "disconnecting" /\ mongoose' = "disconnecting") => server' = "closed"
      /\ (exitCode = <<>> /\ exitCode' = <<0>>) =>
           /\ server' = "closed"
           /\ pending'.shutdown = "none"
      /\ (exitCode = <<>> /\ pending'.force < pending.force) => exitCode' = <<1>>
    ]_vars

====
